---- MODULE Spec2Model ----
(***************************************************************************)
(* A model of digi/xbee/models/zdo.py: the ZDO command engine              *)
(* (__ZDOCommand), the NodeDescriptorReader and the RouteTableReader.      *)
(*                                                                         *)
(* The specifications share the variables:                                 *)
(*   SpecAlloc  - construction of command instances by one thread (the     *)
(*                transaction ID generator of __ZDOCommand.__init__);      *)
(*   SpecAllocConc - the same by several threads at once;                  *)
(*   SpecRoute, SpecDescriptor - the two payload decoders applied to one   *)
(*                payload;                                                 *)
(*   Spec       - one exchange of one command instance: the caller, the    *)
(*                controlling unit that runs _send_zdo, the transport's    *)
(*                frame-delivery thread that runs _zdo_packet_callback,    *)
(*                and a thread that calls stop().                          *)
(***************************************************************************)
EXTENDS Integers, Sequences, FiniteSets, TLC

(***************************************************************************)
(* Program constants.                                                      *)
(***************************************************************************)
GLOBAL_TID_INIT == 1
TID_WRAP == 255
STATUS_SUCCESS == 0
ROUTE_BYTES_LEN == 5
ROUTES_STARTING_INDEX == 3
EXPLICIT_AO == 1
ST_FIELD_OFFSET == 0
ST_FIELD_LEN == 3
MEM_FIELD_OFFSET == 3
M2O_FIELD_OFFSET == 4
RR_FIELD_OFFSET == 5

(***************************************************************************)
(* Bounds of the model.                                                    *)
(***************************************************************************)
MaxAlloc == 256
MaxTotal == 2
MaxPage == 2
MaxSent == 2
MaxConc == 4

Classes == {"ND", "RT"}
Threads == {"t1", "t2"}
MainThread == "t1"
NoInst == [cls |-> "none", tid |-> 0]

VARIABLES
    \* ---- transaction ID generator and constructors
    ownTid,          \* ownTid[c]: the class attribute set on subclass c, 0 when c has none of its own
    aPc,             \* aPc[t]: position of thread t inside __init__
    aCls,            \* aCls[t]: the class thread t is constructing
    aTid,            \* aTid[t]: self._current_transaction_id of the instance under construction
    last,            \* the most recently constructed instance
    prev,            \* the instance constructed before it
    nAlloc,          \* constructions completed
    lastOf,          \* lastOf[c]: the ID of the latest constructed instance of class c, 0 when none
    \* ---- inputs of the exchange
    kind,            \* "ND" NodeDescriptorReader, "RT" RouteTableReader
    cb,              \* a route_callback was supplied to get_route_table
    configure_ao,    \* __configure_ao
    devTotal,        \* number of entries of the device's route table
    \* ---- the device and the transport
    ao,              \* the local XBee's AO (API output mode) register
    registered,      \* _zdo_packet_callback is in the transport's listener list
    sent,            \* cursors of the request frames sent, in order
    pendAck,         \* transmit status frames still to come
    pendResp,        \* cursors of the requests whose response is still to come
    \* ---- fields of the command instance
    saved_ao,        \* __saved_ao, -1 for None
    running,         \* _running
    error,           \* _error
    received_status, \* _received_status
    received_answer, \* _received_answer
    data_parsed,     \* _data_parsed
    lock,            \* _lock (threading.Event): TRUE when set
    zdo_thread,      \* __zdo_thread is a thread object (not None)
    routes_set,      \* __routes is a list (not None)
    routes,          \* __routes
    total_routes,    \* __total_routes
    index,           \* __index
    node_descriptor, \* __node_descriptor: "none" or "desc"
    \* ---- positions of the execution units
    callerPc,        \* the caller of the entry point
    ctlPc,           \* the controlling unit (runs _send_zdo)
    fcbPc,           \* the frame-delivery thread
    stopPc,          \* the thread calling stop()
    ret,             \* what the entry point returned
    \* ---- observation (history) variables
    nDereg,          \* calls of del_packet_received_callback
    nRestore,        \* calls of __restore_device
    nNotify,         \* calls of _notify_process_finished
    nFinish,         \* calls of _perform_finish_actions
    waitEnd,         \* how _lock.wait ended: "none", "signal", "timeout"
    nWait,           \* number of times _lock.wait(timeout) has returned
    hao,             \* the AO register: its value before the exchange, the writes
                     \* that reached it, whether an access to it failed in transport
    chk,             \* the flags and the error right after lines 186-196
    notified,        \* what _notify_process_finished was given
    delivered,       \* routes handed to the route_callback
    hist,            \* what the frame callback has processed so far
    hstop,           \* the state stop() found when it set the signal
    \* ---- the payload decoders applied to one payload
    dPc,             \* "idle" no decoding, "in" payload given, "out" decoded
    dIn,             \* the bytes given to the decoder
    dX16,            \* the 16-bit address of the instance's XBee, <<high byte, low byte>>
    dOut             \* what the decoder produced

allocVars == <<ownTid, aPc, aCls, aTid, last, prev, nAlloc, lastOf>>
inputVars == <<kind, cb, configure_ao, devTotal>>
devVars == <<ao, registered, sent, pendAck, pendResp>>
instVars == <<saved_ao, running, error, received_status, received_answer, data_parsed,
              lock, zdo_thread, routes_set, routes, total_routes, index, node_descriptor>>
pcVars == <<callerPc, ctlPc, fcbPc, stopPc, ret>>
obsVars == <<nDereg, nRestore, nNotify, nFinish, waitEnd, nWait, hao, chk, notified, delivered, hist, hstop>>
exVars == <<inputVars, devVars, instVars, pcVars, obsVars>>
decVars == <<dPc, dIn, dX16, dOut>>
vars == <<allocVars, exVars, decVars>>

(***************************************************************************)
(* The transaction ID generator: __ZDOCommand.__init__, lines 98-101.      *)
(* The attribute is read through self.__class__, so a subclass without an  *)
(* attribute of its own sees the base class's (line 42); it is written     *)
(* through self.__class__, which sets it on the subclass.                  *)
(***************************************************************************)
ClassAttr(c) == IF ownTid[c] = 0 THEN GLOBAL_TID_INIT ELSE ownTid[c]

\* line 98: self._current_transaction_id = self.__class__.__global_transaction_id
AllocRead(t, c) ==
    /\ aPc[t] = "idle"
    /\ nAlloc < MaxAlloc
    /\ aCls' = [aCls EXCEPT ![t] = c]
    /\ aTid' = [aTid EXCEPT ![t] = ClassAttr(c)]
    /\ aPc' = [aPc EXCEPT ![t] = "l99"]
    /\ UNCHANGED <<ownTid, last, prev, nAlloc, lastOf>>

\* line 99: self.__class__.__global_transaction_id = ... + 1
AllocIncr(t) ==
    /\ aPc[t] = "l99"
    /\ ownTid' = [ownTid EXCEPT ![aCls[t]] = ClassAttr(aCls[t]) + 1]
    /\ aPc' = [aPc EXCEPT ![t] = "l100"]
    /\ UNCHANGED <<aCls, aTid, last, prev, nAlloc, lastOf>>

\* lines 100-101 with the reset left out: the counter goes on past 0xFF
AllocWrap_NoReset(t) ==
    /\ aPc[t] = "l100"
    /\ aPc' = [aPc EXCEPT ![t] = "idle"]
    /\ prev' = last
    /\ last' = [cls |-> aCls[t], tid |-> aTid[t]]
    /\ nAlloc' = nAlloc + 1
    /\ lastOf' = [lastOf EXCEPT ![aCls[t]] = aTid[t]]
    /\ UNCHANGED <<ownTid, aCls, aTid>>

\* lines 100-101: if ... == 0xFF: ... = 1; the constructor returns the instance
AllocWrap(t) ==
    /\ aPc[t] = "l100"
    /\ ownTid' = IF ClassAttr(aCls[t]) = TID_WRAP
                 THEN [ownTid EXCEPT ![aCls[t]] = 1]
                 ELSE ownTid
    /\ aPc' = [aPc EXCEPT ![t] = "idle"]
    /\ prev' = last
    /\ last' = [cls |-> aCls[t], tid |-> aTid[t]]
    /\ nAlloc' = nAlloc + 1
    /\ lastOf' = [lastOf EXCEPT ![aCls[t]] = aTid[t]]
    /\ UNCHANGED <<aCls, aTid>>

AllocInit ==
    /\ ownTid = [c \in Classes |-> 0]
    /\ aPc = [t \in Threads |-> "idle"]
    /\ aCls = [t \in Threads |-> "ND"]
    /\ aTid = [t \in Threads |-> 0]
    /\ last = NoInst
    /\ prev = NoInst
    /\ nAlloc = 0
    /\ lastOf = [c \in Classes |-> 0]


(***************************************************************************)
(* The exchange.  Helpers first.                                           *)
(***************************************************************************)
Min(a, b) == IF a < b THEN a ELSE b
Max(a, b) == IF a > b THEN a ELSE b

\* get_route_table line 768: sync=True if not self.__cb else False;
\* get_node_descriptor line 435: sync=True
Sync == kind = "ND" \/ ~cb

\* utils.is_bit_enabled(self.__saved_ao[0], 0), line 283
ExplicitEnabled(v) == v % 2 = 1

NoHist == [ackOk |-> FALSE, ackFail |-> FALSE, respDone |-> FALSE, respErr |-> FALSE,
           paged |-> FALSE, pages |-> <<>>, errSnap |-> [taken |-> FALSE],
           ackSnap |-> [taken |-> FALSE, marked |-> TRUE, failRecorded |-> TRUE,
                        failStopped |-> TRUE, okErrorKept |-> TRUE,
                        okStopIffParsed |-> TRUE],
           stopJustified |-> TRUE]
NoStop == [set |-> FALSE, running |-> FALSE, begun |-> FALSE, waiting |-> FALSE,
           answered |-> FALSE]
NoChk == [done |-> FALSE, rs |-> FALSE, ra |-> FALSE, pre |-> "none", err |-> "none"]
NoNotified == [done |-> FALSE, err |-> "none", routes |-> <<>>, reg |-> FALSE]

\* The frames a device can answer the request with cursor c with.  A Route
\* Table answer carries the table's size and n entries from the cursor; a
\* Node Descriptor answer carries the subject's 16-bit address.
RespFrames(c) ==
    IF kind = "RT"
    THEN { [status |-> st, total |-> devTotal, addrOk |-> TRUE,
            entries |-> [i \in 1..n |-> c + i - 1]] :
              st \in {STATUS_SUCCESS, 1}, n \in 0..Min(MaxPage, Max(0, devTotal - c)) }
    ELSE { [status |-> st, total |-> 0, addrOk |-> a, entries |-> <<>>] :
              st \in {STATUS_SUCCESS, 1}, a \in BOOLEAN }

\* len(data) of a Route Table answer: 3 header bytes and 5 bytes per entry
DataLen(f) == ROUTES_STARTING_INDEX + ROUTE_BYTES_LEN * Len(f.entries)

\* lines 828-840 with an 'if' in place of the 'while': one entry per answer
ParseLoop_OnlyFirst(byte_index, n_route_data_bytes, count) ==
    IF byte_index + 1 < n_route_data_bytes THEN count + 1 ELSE count

\* RouteTableReader._parse_data lines 828-840: the number of entries the
\* while loop parses from a payload whose route bytes number n_route_data_bytes
RECURSIVE ParseLoop(_, _, _)
ParseLoop(byte_index, n_route_data_bytes, count) ==
    IF byte_index + 1 < n_route_data_bytes
       /\ ~(byte_index + ROUTE_BYTES_LEN > n_route_data_bytes + ROUTES_STARTING_INDEX)
    THEN ParseLoop(byte_index + ROUTE_BYTES_LEN, n_route_data_bytes, count + 1)
    ELSE count

\* The instance fields the frame callback can change, as they are now.
Cur == [received_status |-> received_status, received_answer |-> received_answer,
        data_parsed |-> data_parsed, error |-> error,
        routes |-> routes, total_routes |-> total_routes, index |-> index,
        node_descriptor |-> node_descriptor,
        send |-> "no", newly |-> <<>>, stop |-> FALSE, carried |-> -1]

\* RouteTableReader.__get_next_routes lines 895-907, applied to the fields s
GetNextRoutes(s, sendOk) ==
    IF sendOk THEN [s EXCEPT !.send = "ok"]
    ELSE [s EXCEPT !.send = "fail", !.error = "send"]

\* RouteTableReader._parse_data lines 802-848: the fields after it and, in
\* data_parsed, the value it returns
ParseRouteTable(f, sendOk) ==
    LET n_items == Len(f.entries)
        s0 == [Cur EXCEPT !.total_routes = f.total, !.carried = n_items]
        k == ParseLoop(ROUTES_STARTING_INDEX, DataLen(f) - 3, 0)
        got == SubSeq(f.entries, 1, k)
        s1 == [s0 EXCEPT !.routes = routes \o got, !.index = index + k, !.newly = got]
    IN IF n_items = 0
       THEN [GetNextRoutes(s0, sendOk) EXCEPT !.data_parsed = TRUE]
       ELSE IF s1.index < s1.total_routes
            THEN [GetNextRoutes(s1, sendOk) EXCEPT !.data_parsed = FALSE]
            ELSE [s1 EXCEPT !.data_parsed = TRUE]

\* NodeDescriptorReader._parse_data lines 467-512
ParseNodeDescriptor(f) ==
    IF ~f.addrOk
    THEN [Cur EXCEPT !.data_parsed = FALSE]
    ELSE [Cur EXCEPT !.node_descriptor = "desc", !.data_parsed = TRUE]

ParseData(f, sendOk) ==
    IF kind = "RT" THEN ParseRouteTable(f, sendOk) ELSE ParseNodeDescriptor(f)

StatusIsError_Never(st) == FALSE

\* line 366: frame.rf_data[1] != __STATUS_SUCCESS
StatusIsError(st) == st # STATUS_SUCCESS

\* An answer handler that stops on a parsed payload alone.
AnswerShouldStop_ParsedOnly(dp, rs) == dp

\* line 373: if self._data_parsed and self._received_status
AnswerShouldStop(dp, rs) == dp /\ rs

AckShouldStop_Always(dp) == TRUE

\* line 388: if self._data_parsed
AckShouldStop(dp) == dp

\* _zdo_packet_callback lines 364-374, for an explicit frame that passed the
\* address, endpoint, profile, cluster and transaction ID checks
AnswerEffect(f, sendOk) ==
    IF StatusIsError(f.status)
    THEN [Cur EXCEPT !.received_answer = TRUE, !.error = "status", !.stop = TRUE]
    ELSE LET p == ParseData(f, sendOk)
         IN [p EXCEPT !.received_answer = TRUE,
                      !.stop = AnswerShouldStop(p.data_parsed, received_status)]

\* A transmit status handler that treats every status as a success.
AckEffect_FailureUnnoticed(ok) ==
    [Cur EXCEPT !.received_status = TRUE, !.stop = AckShouldStop(data_parsed)]

\* _zdo_packet_callback lines 382-389, for a transmit status whose frame ID
\* is the transaction ID; ok: the status is SUCCESS or SELF_ADDRESSED
AckEffect(ok) ==
    [Cur EXCEPT !.received_status = TRUE,
                !.error = IF ok THEN error ELSE "link",
                !.stop = ~ok \/ AckShouldStop(data_parsed)]

StopMustJoin_Never == FALSE

\* stop() line 130: if self.__zdo_thread and self._running
StopMustJoin == zdo_thread /\ running

WaitOutcomeError_AnswerFirst(rs, ra, err) ==
    IF ~ra THEN (IF err = "none" THEN "no_answer" ELSE err)
    ELSE IF ~rs THEN (IF err = "none" THEN "not_sent" ELSE err)
    ELSE err

\* Outcome checks that replace an error recorded before them.
WaitOutcomeError_Overwrite(rs, ra, err) ==
    IF ~rs THEN "not_sent"
    ELSE IF ~ra THEN "no_answer"
    ELSE err

\* lines 186-194: the error after the wait, from the two flags
WaitOutcomeError(rs, ra, err) ==
    IF ~rs THEN (IF err = "none" THEN "not_sent" ELSE err)
    ELSE IF ~ra THEN (IF err = "none" THEN "no_answer" ELSE err)
    ELSE err


(***************************************************************************)
(* The entry points: get_node_descriptor (428-437), get_route_table        *)
(* (767-771) and _start_process (146-151).                                 *)
(***************************************************************************)
\* line 437 return self.__node_descriptor; line 771 return self.__routes
EntryResult ==
    IF kind = "ND" THEN node_descriptor
    ELSE IF routes_set THEN "list" ELSE "None"

\* _start_process: run _send_zdo on the caller's thread, or create and start
\* the thread that runs it
CallEntry ==
    /\ callerPc = "init"
    /\ ctlPc' = "start"
    /\ zdo_thread' = ~Sync
    /\ callerPc' = IF Sync THEN "blocked" ELSE "ret"
    /\ UNCHANGED <<inputVars, devVars, obsVars, fcbPc, stopPc, ret,
                   saved_ao, running, error, received_status, received_answer, data_parsed,
                   lock, routes_set, routes, total_routes, index, node_descriptor>>

\* the return statement of the entry point; a synchronous start returns
\* once _send_zdo has
CallReturn ==
    /\ \/ callerPc = "ret"
       \/ callerPc = "blocked" /\ ctlPc = "done"
    /\ ret' = EntryResult
    /\ callerPc' = "returned"
    /\ UNCHANGED <<inputVars, devVars, instVars, obsVars, ctlPc, fcbPc, stopPc>>

(***************************************************************************)
(* The controlling unit: _send_zdo, lines 163-203.                         *)
(***************************************************************************)
\* lines 163-167
SendZdoBegin ==
    /\ ctlPc = "start"
    /\ running' = TRUE
    /\ error' = "none"
    /\ received_status' = FALSE
    /\ received_answer' = FALSE
    /\ data_parsed' = FALSE
    /\ ctlPc' = "clear"
    /\ UNCHANGED <<inputVars, devVars, obsVars, callerPc, fcbPc, stopPc, ret,
                   saved_ao, lock, zdo_thread, routes_set, routes, total_routes, index,
                   node_descriptor>>

\* line 168: self._lock.clear()
SendZdoClear ==
    /\ ctlPc = "clear"
    /\ lock' = FALSE
    /\ ctlPc' = "reg"
    /\ UNCHANGED <<inputVars, devVars, obsVars, callerPc, fcbPc, stopPc, ret,
                   saved_ao, running, error, received_status, received_answer, data_parsed,
                   zdo_thread, routes_set, routes, total_routes, index, node_descriptor>>

\* line 175: xb.add_packet_received_callback(self._zdo_packet_callback)
SendZdoRegister ==
    /\ ctlPc = "reg"
    /\ registered' = TRUE
    /\ ctlPc' = "init"
    /\ UNCHANGED <<inputVars, instVars, obsVars, callerPc, fcbPc, stopPc, ret,
                   ao, sent, pendAck, pendResp>>

\* line 177: self._init_variables() (773-782 for the Route Table, 439-446
\* for the Node Descriptor, which resets only the role)
InitVariables ==
    /\ ctlPc = "init"
    /\ IF kind = "RT"
       THEN /\ routes_set' = TRUE
            /\ routes' = <<>>
            /\ total_routes' = 0
            /\ index' = 0
       ELSE UNCHANGED <<routes_set, routes, total_routes, index>>
    /\ ctlPc' = "prepare"
    /\ UNCHANGED <<inputVars, devVars, obsVars, callerPc, fcbPc, stopPc, ret,
                   saved_ao, running, error, received_status, received_answer, data_parsed,
                   lock, zdo_thread, node_descriptor>>

\* line 180: self.__prepare_device() (266-292).  outcome: "ok", or the
\* XBeeException of get_api_output_mode_value ("getfail") or of
\* set_api_output_mode_value ("setfail"), which lines 197-198 record
PrepareDevice(outcome) ==
    /\ ctlPc = "prepare"
    /\ IF ~configure_ao
       THEN /\ outcome = "ok"
            /\ UNCHANGED <<saved_ao, ao, error, hao>>
            /\ ctlPc' = "send"
       ELSE CASE outcome = "getfail" ->
                   /\ error' = "prepare"
                   /\ ctlPc' = "dereg"
                   /\ hao' = [hao EXCEPT !.failed = TRUE]
                   /\ UNCHANGED <<saved_ao, ao>>
              [] outcome = "setfail" ->
                   /\ ~ExplicitEnabled(ao)
                   /\ saved_ao' = ao
                   /\ error' = "prepare"
                   /\ ctlPc' = "dereg"
                   /\ hao' = [hao EXCEPT !.failed = TRUE]
                   /\ UNCHANGED ao
              [] OTHER ->
                   /\ saved_ao' = IF ExplicitEnabled(ao) THEN -1 ELSE ao
                   /\ ao' = IF ExplicitEnabled(ao) THEN ao ELSE EXPLICIT_AO
                   /\ hao' = [hao EXCEPT !.writes = IF ExplicitEnabled(ao) THEN @ ELSE @ + 1]
                   /\ ctlPc' = "send"
                   /\ UNCHANGED error
    /\ UNCHANGED <<inputVars, nDereg, nRestore, nNotify, nFinish, waitEnd, nWait, chk, notified,
                   delivered, hist, hstop, callerPc, fcbPc, stopPc, ret,
                   registered, sent, pendAck, pendResp,
                   running, received_status, received_answer, data_parsed,
                   lock, zdo_thread, routes_set, routes, total_routes, index, node_descriptor>>

\* the cursor a request carries: _get_zdo_command_data line 800 (the Node
\* Descriptor request, line 464, carries none)
RequestCursor_Restart(i) == 0

RequestCursor(i) == IF kind = "RT" THEN i ELSE 0

\* line 182: xb.send_packet(self._generate_zdo_packet()); a failure is the
\* XBeeException lines 197-198 record
SendPacket(ok) ==
    /\ ctlPc = "send"
    /\ IF ok
       THEN /\ sent' = Append(sent, RequestCursor(index))
            /\ pendAck' = pendAck + 1
            /\ pendResp' = Append(pendResp, RequestCursor(index))
            /\ ctlPc' = "wait"
            /\ UNCHANGED error
       ELSE /\ error' = "send"
            /\ ctlPc' = "dereg"
            /\ UNCHANGED <<sent, pendAck, pendResp>>
    /\ UNCHANGED <<inputVars, obsVars, callerPc, fcbPc, stopPc, ret, ao, registered,
                   saved_ao, running, received_status, received_answer, data_parsed,
                   lock, zdo_thread, routes_set, routes, total_routes, index, node_descriptor>>

\* line 184: self._lock.wait(self.__timeout) returns because the event is set
WaitSignalled ==
    /\ ctlPc = "wait"
    /\ lock
    /\ waitEnd' = "signal"
    /\ nWait' = nWait + 1
    /\ ctlPc' = "check"
    /\ UNCHANGED <<inputVars, devVars, instVars, callerPc, fcbPc, stopPc, ret,
                   nDereg, nRestore, nNotify, nFinish, chk, notified, delivered, hist, hstop, hao>>

\* A wait that is armed again for every request sent while it was pending.
WaitTimedOut_PerRound ==
    /\ ctlPc = "wait"
    /\ ~lock
    /\ nWait' = nWait + 1
    /\ IF Len(sent) > nWait + 1
       THEN ctlPc' = "wait" /\ UNCHANGED waitEnd
       ELSE ctlPc' = "check" /\ waitEnd' = "timeout"
    /\ UNCHANGED <<inputVars, devVars, instVars, callerPc, fcbPc, stopPc, ret,
                   nDereg, nRestore, nNotify, nFinish, chk, notified, delivered, hist, hstop, hao>>

\* line 184: the wait returns because the timeout elapsed
WaitTimedOut ==
    /\ ctlPc = "wait"
    /\ ~lock
    /\ waitEnd' = "timeout"
    /\ nWait' = nWait + 1
    /\ ctlPc' = "check"
    /\ UNCHANGED <<inputVars, devVars, instVars, callerPc, fcbPc, stopPc, ret,
                   nDereg, nRestore, nNotify, nFinish, chk, notified, delivered, hist, hstop, hao>>

\* lines 186-196
CheckOutcome ==
    /\ ctlPc = "check"
    /\ error' = WaitOutcomeError(received_status, received_answer, error)
    /\ nFinish' = IF received_status /\ received_answer THEN nFinish + 1 ELSE nFinish
    /\ chk' = [done |-> TRUE, rs |-> received_status, ra |-> received_answer,
               pre |-> error, err |-> error']
    /\ ctlPc' = "dereg"
    /\ UNCHANGED <<inputVars, devVars, callerPc, fcbPc, stopPc, ret,
                   saved_ao, running, received_status, received_answer, data_parsed,
                   lock, zdo_thread, routes_set, routes, total_routes, index, node_descriptor,
                   nDereg, nRestore, nNotify, waitEnd, nWait, hao, notified, delivered, hist, hstop>>

DelPacketReceivedCallback_Forgotten ==
    /\ registered' = registered
    /\ nDereg' = nDereg

\* line 200: xb.del_packet_received_callback(self._zdo_packet_callback)
DelPacketReceivedCallback ==
    /\ registered' = FALSE
    /\ nDereg' = nDereg + 1

Deregister ==
    /\ ctlPc = "dereg"
    /\ DelPacketReceivedCallback
    /\ ctlPc' = "restore"
    /\ UNCHANGED <<inputVars, instVars, callerPc, fcbPc, stopPc, ret,
                   ao, sent, pendAck, pendResp,
                   nRestore, nNotify, nFinish, waitEnd, nWait, hao, chk, notified, delivered, hist, hstop>>

\* line 201: self.__restore_device() (294-308) up to the call of
\* set_api_output_mode_value, whose reply the frame-delivery thread brings
RestoreDevice ==
    /\ ctlPc = "restore"
    /\ nRestore' = nRestore + 1
    /\ ctlPc' = IF ~configure_ao \/ saved_ao = -1 THEN "notify" ELSE "restore_wait"
    /\ UNCHANGED <<inputVars, devVars, instVars, callerPc, fcbPc, stopPc, ret,
                   nDereg, nNotify, nFinish, waitEnd, nWait, hao, chk, notified, delivered, hist, hstop>>

\* A restore that writes the explicit value back instead of the saved one.
RestoreReply_KeepsExplicit ==
    /\ ctlPc = "restore_wait"
    /\ fcbPc = "idle"
    /\ ao' = EXPLICIT_AO
    /\ hao' = [hao EXCEPT !.writes = @ + 1]
    /\ ctlPc' = "notify"
    /\ UNCHANGED <<inputVars, instVars, nDereg, nRestore, nNotify, nFinish, waitEnd, nWait, chk, notified,
                   delivered, hist, hstop, callerPc, fcbPc, stopPc, ret,
                   registered, sent, pendAck, pendResp>>

\* line 308: set_api_output_mode_value(self.__saved_ao[0]) succeeds
RestoreReply ==
    /\ ctlPc = "restore_wait"
    /\ fcbPc = "idle"
    /\ ao' = saved_ao
    /\ hao' = [hao EXCEPT !.writes = @ + 1]
    /\ ctlPc' = "notify"
    /\ UNCHANGED <<inputVars, instVars, nDereg, nRestore, nNotify, nFinish, waitEnd, nWait, chk, notified,
                   delivered, hist, hstop, callerPc, fcbPc, stopPc, ret,
                   registered, sent, pendAck, pendResp>>

\* lines 309-310: it raises XBeeException.  cause: the transport failed and
\* the write did not reach the device ("write_lost"), or the device wrote the
\* register and the reply cannot be dispatched in time because the
\* frame-delivery thread is inside the callback, joining this thread
\* ("reply_unread")
RestoreFail(cause) ==
    /\ ctlPc = "restore_wait"
    /\ cause = "reply_unread" => fcbPc = "join"
    /\ ao' = IF cause = "write_lost" THEN ao ELSE saved_ao
    /\ hao' = [hao EXCEPT !.writes = IF cause = "write_lost" THEN @ ELSE @ + 1,
                          !.failed = @ \/ cause # "reply_unread"]
    /\ error' = "restore"
    /\ ctlPc' = "notify"
    /\ UNCHANGED <<inputVars, nDereg, nRestore, nNotify, nFinish, waitEnd, nWait, chk, notified,
                   delivered, hist, hstop, callerPc, fcbPc, stopPc, ret,
                   registered, sent, pendAck, pendResp,
                   saved_ao, running, received_status, received_answer, data_parsed,
                   lock, zdo_thread, routes_set, routes, total_routes, index, node_descriptor>>

\* line 202: self._notify_process_finished(zdo_callback) (253-264, 859-867)
NotifyProcessFinished ==
    /\ ctlPc = "notify"
    /\ nNotify' = nNotify + 1
    /\ notified' = [done |-> TRUE, err |-> error, routes |-> routes, reg |-> registered]
    /\ ctlPc' = "unrun"
    /\ UNCHANGED <<inputVars, devVars, instVars, callerPc, fcbPc, stopPc, ret,
                   nDereg, nRestore, nFinish, waitEnd, nWait, hao, chk, delivered, hist, hstop>>

\* line 203: self._running = False; _send_zdo returns
SendZdoEnd ==
    /\ ctlPc = "unrun"
    /\ running' = FALSE
    /\ ctlPc' = "done"
    /\ UNCHANGED <<inputVars, devVars, obsVars, callerPc, fcbPc, stopPc, ret,
                   saved_ao, error, received_status, received_answer, data_parsed,
                   lock, zdo_thread, routes_set, routes, total_routes, index, node_descriptor>>


\* the callback called once per answer, after the loop, with its first route
RouteCallbackCalls_OncePerAnswer(newly) ==
    IF cb /\ newly # <<>> THEN <<Head(newly)>> ELSE <<>>

\* lines 836-838: the routes handed to the route_callback while the loop
\* appends the routes newly to __routes
RouteCallbackCalls(newly) == IF cb THEN newly ELSE <<>>

(***************************************************************************)
(* The frame-delivery thread: it hands each inbound frame to the listeners *)
(* registered at that time, so to _zdo_packet_callback (333-389); a frame  *)
(* that finds the callback deregistered never reaches the instance.  The   *)
(* callback's work on one frame is one step, up to the join inside stop(). *)
(***************************************************************************)
\* the callback has processed (not ignored) a frame: what it did to the fields
Apply(e, what) ==
    /\ received_status' = e.received_status
    /\ received_answer' = e.received_answer
    /\ data_parsed' = e.data_parsed
    /\ error' = e.error
    /\ routes' = e.routes
    /\ total_routes' = e.total_routes
    /\ index' = e.index
    /\ node_descriptor' = e.node_descriptor
    /\ delivered' = delivered \o RouteCallbackCalls(e.newly)
    \* __get_next_routes, line 905, when it sent a frame
    /\ sent' = IF e.send = "ok" THEN Append(sent, RequestCursor(e.index)) ELSE sent
    \* stop() lines 127-131, called from the callback
    /\ lock' = (lock \/ e.stop)
    /\ fcbPc' = IF e.stop /\ StopMustJoin THEN "join" ELSE "idle"
    /\ hist' = [hist EXCEPT !.ackOk = @ \/ what = "ackOk",
                            !.ackFail = @ \/ what = "ackFail",
                            !.respErr = @ \/ what = "respErr",
                            !.respDone = @ \/ (what = "resp" /\ e.data_parsed),
                            !.paged = @ \/ e.send # "no",
                            !.pages = IF e.carried >= 0 THEN Append(@, e.carried) ELSE @,
                            \* what the callback did with the first answer of non-zero status
                            !.errSnap = IF what = "respErr" /\ ~@.taken
                                        THEN [taken |-> TRUE, lock |-> lock', error |-> e.error,
                                              received_answer |-> e.received_answer,
                                              untouched |-> /\ e.data_parsed = data_parsed
                                                            /\ e.routes = routes
                                                            /\ e.index = index
                                                            /\ e.total_routes = total_routes
                                                            /\ e.node_descriptor = node_descriptor
                                                            /\ e.newly = <<>>
                                                            /\ e.send = "no",
                                              sent |-> sent']
                                        ELSE @,
                            \* what the callback has done with every transmit status so
                            \* far: the flag it set, the error and stop() of a failed one,
                            \* the error and stop() of a successful one
                            !.ackSnap = IF what \in {"ackOk", "ackFail"}
                                        THEN [taken |-> TRUE,
                                              marked |-> @.marked /\ e.received_status,
                                              failRecorded |-> @.failRecorded /\
                                                  (what = "ackFail" => e.error = "link"),
                                              failStopped |-> @.failStopped /\
                                                  (what = "ackFail" => e.stop /\ lock'),
                                              okErrorKept |-> @.okErrorKept /\
                                                  (what = "ackOk" => e.error = error),
                                              okStopIffParsed |-> @.okStopIffParsed /\
                                                  (what = "ackOk" => (e.stop <=> data_parsed))]
                                        ELSE @,
                            \* every stop() the callback has called so far left an error
                            \* recorded, or both the status observed and the data parsed
                            !.stopJustified = @ /\ (e.stop => \/ e.error # "none"
                                                              \/ /\ e.received_status
                                                                 /\ e.data_parsed)]

\* line 340: if not self._running: return
Ignore ==
    UNCHANGED <<received_status, received_answer, data_parsed, error, routes, total_routes,
                index, node_descriptor, delivered, sent, lock, fcbPc, hist>>

\* a transmit status frame whose frame ID is the transaction ID arrives
DeliverAck(ok) ==
    /\ fcbPc = "idle"
    /\ registered
    /\ pendAck > 0
    /\ pendAck' = pendAck - 1
    /\ IF running
       THEN Apply(AckEffect(ok), IF ok THEN "ackOk" ELSE "ackFail")
       ELSE Ignore
    /\ UNCHANGED <<inputVars, ao, registered, pendResp, saved_ao, running, zdo_thread,
                   routes_set, callerPc, ctlPc, stopPc, ret,
                   nDereg, nRestore, nNotify, nFinish, waitEnd, nWait, hao, chk, notified, hstop>>

\* the answer to the oldest unanswered request arrives: an explicit frame
\* from the target with the fixed endpoints and profile, the receive cluster
\* ID and the transaction ID in its first byte
DeliverAnswer(f, sendOk) ==
    /\ fcbPc = "idle"
    /\ pendResp # <<>>
    /\ registered
    /\ f \in RespFrames(Head(pendResp))
    /\ IF running
       THEN LET e == AnswerEffect(f, sendOk)
            IN /\ (e.send = "no" => sendOk)
               /\ (e.send # "no" => Len(sent) < MaxSent)
               /\ Apply(e, IF f.status # STATUS_SUCCESS THEN "respErr" ELSE "resp")
               /\ pendAck' = IF e.send = "ok" THEN pendAck + 1 ELSE pendAck
               /\ pendResp' = IF e.send = "ok"
                              THEN Append(Tail(pendResp), RequestCursor(e.index))
                              ELSE Tail(pendResp)
       ELSE /\ sendOk
            /\ Ignore
            /\ pendAck' = pendAck
            /\ pendResp' = Tail(pendResp)
    /\ UNCHANGED <<inputVars, ao, registered, saved_ao, running, zdo_thread,
                   routes_set, callerPc, ctlPc, stopPc, ret,
                   nDereg, nRestore, nNotify, nFinish, waitEnd, nWait, hao, chk, notified, hstop>>

\* A filter that does not compare the transaction ID.
FrameDiscarded_TidUnchecked(fr) ==
    \/ ~running
    \/ /\ fr.frame_type = "EXPLICIT_RX_INDICATOR"
       /\ \/ (fr.x64 = "other" /\ fr.x16 = "other")
          \/ ~fr.profile_ok \/ ~fr.source_endpoint_ok \/ ~fr.dest_endpoint_ok
          \/ ~fr.cluster_ok
    \/ fr.frame_type \notin {"EXPLICIT_RX_INDICATOR", "TRANSMIT_STATUS"}

\* _zdo_packet_callback lines 340-363 and 375-380: the frames it returns on
\* without touching anything.  x64 and x16 tell how the target's address
\* stands to the frame's source: "unknown" (UNKNOWN_ADDRESS), "same", "other";
\* _is_broadcast() is False in both readers (lines 455, 791)
FrameDiscarded(fr) ==
    \/ ~running
    \/ /\ fr.frame_type = "EXPLICIT_RX_INDICATOR"
       /\ \/ (fr.x64 # "unknown" /\ fr.x64 # "same" /\ fr.x16 # "unknown" /\ fr.x16 # "same")
          \/ ~fr.profile_ok \/ ~fr.source_endpoint_ok \/ ~fr.dest_endpoint_ok
          \/ ~fr.cluster_ok
          \/ ~fr.tid_ok
    \/ /\ fr.frame_type = "TRANSMIT_STATUS"
       /\ ~fr.tid_ok
    \/ fr.frame_type \notin {"EXPLICIT_RX_INDICATOR", "TRANSMIT_STATUS"}

\* _zdo_packet_callback lines 333-389 on any frame fr handed to it
ZdoPacketCallback(fr) ==
    /\ IF FrameDiscarded(fr)
       THEN Ignore /\ UNCHANGED <<pendAck, pendResp>>
       ELSE IF fr.frame_type = "TRANSMIT_STATUS"
            THEN /\ Apply(AckEffect(fr.ok), IF fr.ok THEN "ackOk" ELSE "ackFail")
                 /\ UNCHANGED <<pendAck, pendResp>>
            ELSE LET e == AnswerEffect(fr.body, TRUE)
                 IN /\ Apply(e, IF fr.body.status # STATUS_SUCCESS THEN "respErr" ELSE "resp")
                    \* the follow-up request of __get_next_routes is now in flight
                    /\ pendAck' = IF e.send = "ok" THEN pendAck + 1 ELSE pendAck
                    /\ pendResp' = IF e.send = "ok"
                                   THEN Append(pendResp, RequestCursor(e.index))
                                   ELSE pendResp
    /\ UNCHANGED <<inputVars, ao, registered, saved_ao, running, zdo_thread,
                   routes_set, callerPc, ctlPc, stopPc, ret,
                   nDereg, nRestore, nNotify, nFinish, waitEnd, nWait, hao, chk, notified, hstop>>

\* stop() lines 131-132 in the callback: join() returns when the controlling
\* thread has ended
CallbackJoined ==
    /\ fcbPc = "join"
    /\ ctlPc = "done"
    /\ zdo_thread' = FALSE
    /\ fcbPc' = "idle"
    /\ UNCHANGED <<inputVars, devVars, obsVars, callerPc, ctlPc, stopPc, ret,
                   saved_ao, running, error, received_status, received_answer, data_parsed,
                   lock, routes_set, routes, total_routes, index, node_descriptor>>

(***************************************************************************)
(* stop() (123-132) called from outside the controlling unit: by another   *)
(* thread while a synchronous entry point blocks its caller, by the caller *)
(* (or anyone) once an asynchronous entry point has returned, in both      *)
(* cases before _send_zdo has returned (afterwards stop() only sets the    *)
(* event).                                                                 *)
(***************************************************************************)
InRound == ctlPc \in {"reg", "init", "prepare", "send", "wait"}

\* lines 127-130: set the event, then decide whether to join
StopCall ==
    /\ stopPc = "idle"
    /\ callerPc = IF Sync THEN "blocked" ELSE "returned"
    /\ ctlPc # "done"
    /\ lock' = TRUE
    /\ hstop' = [set |-> TRUE, running |-> running, begun |-> running /\ InRound,
                 waiting |-> waitEnd = "none", answered |-> received_answer]
    /\ stopPc' = IF StopMustJoin THEN "join" ELSE "returned"
    /\ UNCHANGED <<inputVars, devVars, callerPc, ctlPc, fcbPc, ret,
                   saved_ao, running, error, received_status, received_answer, data_parsed,
                   zdo_thread, routes_set, routes, total_routes, index, node_descriptor,
                   nDereg, nRestore, nNotify, nFinish, waitEnd, nWait, hao, chk, notified, delivered, hist>>

\* lines 131-132
StopJoined ==
    /\ stopPc = "join"
    /\ ctlPc = "done"
    /\ zdo_thread' = FALSE
    /\ stopPc' = "returned"
    /\ UNCHANGED <<inputVars, devVars, obsVars, callerPc, ctlPc, fcbPc, ret,
                   saved_ao, running, error, received_status, received_answer, data_parsed,
                   lock, routes_set, routes, total_routes, index, node_descriptor>>

(***************************************************************************)
(* The payload decoders, byte by byte: RouteTableReader.__parse_route      *)
(* (869-893) with RouteStatus.get (949-964), and                           *)
(* NodeDescriptorReader._parse_data (467-512).  data[i] of the code is     *)
(* At(data, i).  The helpers of digi.xbee.util.utils and of                *)
(* digi.xbee.models.address and protocol are outside this file.            *)
(***************************************************************************)
Bytes == 0..255
At(data, i) == data[i + 1]
NoDecoded == [ok |-> FALSE]

RECURSIVE Pow2(_)
Pow2(n) == IF n = 0 THEN 1 ELSE 2 * Pow2(n - 1)

\* utils.is_bit_enabled(number, position)
IsBitEnabled(number, position) == (number \div Pow2(position)) % 2 = 1

\* utils.get_int_from_byte(number, offset, length)
GetIntFromByte(number, offset, length) == (number \div Pow2(offset)) % Pow2(length)

\* utils.bytes_to_int(byte_array): the first byte is the most significant
BytesToInt(hi, lo) == hi * 256 + lo

\* XBee16BitAddress.from_bytes(hsb, lsb)
X16FromBytes(hsb, lsb) == <<hsb, lsb>>

\* Role.get(identifier), kept as the identifier it is given
RoleGet(identifier) == identifier

\* the members of RouteStatus, lines 915-920, in definition order
RouteStatusItems ==
    << [id |-> 0, name |-> "ACTIVE"], [id |-> 1, name |-> "DISCOVERY_UNDERWAY"],
       [id |-> 2, name |-> "DISCOVERY_FAILED"], [id |-> 3, name |-> "INACTIVE"],
       [id |-> 4, name |-> "VALIDATION_UNDERWAY"], [id |-> -1, name |-> "UNKNOWN"] >>

\* RouteStatus.get with the final 'return None' replaced by the UNKNOWN member
RouteStatusGet_UnknownFallback(identifier) ==
    LET hits == {i \in 1..Len(RouteStatusItems) : RouteStatusItems[i].id = identifier}
    IN IF hits = {} THEN "UNKNOWN"
       ELSE RouteStatusItems[CHOOSE i \in hits : \A j \in hits : i <= j].name

\* RouteStatus.get, lines 949-964: the first member with the id, else None
RouteStatusGet(identifier) ==
    LET hits == {i \in 1..Len(RouteStatusItems) : RouteStatusItems[i].id = identifier}
    IN IF hits = {} THEN "None"
       ELSE RouteStatusItems[CHOOSE i \in hits : \A j \in hits : i <= j].name

\* RouteTableReader.__parse_route, lines 886-893
ParseRoute(data) ==
    [ok |-> TRUE,
     destination |-> X16FromBytes(At(data, 1), At(data, 0)),
     next_hop |-> X16FromBytes(At(data, 4), At(data, 3)),
     status |-> RouteStatusGet(GetIntFromByte(At(data, 2), ST_FIELD_OFFSET, ST_FIELD_LEN)),
     is_low_memory |-> IsBitEnabled(At(data, 2), MEM_FIELD_OFFSET),
     is_many_to_one |-> IsBitEnabled(At(data, 2), M2O_FIELD_OFFSET),
     is_route_record_required |-> IsBitEnabled(At(data, 2), RR_FIELD_OFFSET)]

\* NodeDescriptorReader.__to_bits, lines 515-525: bit i at position i + 1
ToBits(data_byte) == [i \in 1..8 |-> (data_byte \div Pow2(i - 1)) % 2]

\* lines 478-512 with the two bytes of the manufacturer code taken in the
\* order they arrive
DecodeNodeDescriptor_MfgSwapped(data, x16) ==
    IF X16FromBytes(At(data, 1), At(data, 0)) # x16
    THEN [ok |-> FALSE]
    ELSE [ok |-> TRUE,
          role |-> RoleGet(GetIntFromByte(At(data, 2), 0, 3)),
          complex_desc_supported |-> IsBitEnabled(At(data, 2), 3),
          user_desc_supported |-> IsBitEnabled(At(data, 2), 4),
          freq_band |-> SubSeq(ToBits(At(data, 3)), 4, 8),
          mac_capabilities |-> ToBits(At(data, 4)),
          manufacturer_code |-> BytesToInt(At(data, 5), At(data, 6)),
          max_buffer_size |-> At(data, 7),
          max_in_transfer_size |-> BytesToInt(At(data, 9), At(data, 8)),
          max_out_transfer_size |-> BytesToInt(At(data, 13), At(data, 12)),
          desc_capabilities |-> ToBits(At(data, 14))]

\* NodeDescriptorReader._parse_data, lines 474-512: ok is the value returned,
\* the other fields are the NodeDescriptor stored
DecodeNodeDescriptor(data, x16) ==
    IF X16FromBytes(At(data, 1), At(data, 0)) # x16
    THEN [ok |-> FALSE]
    ELSE [ok |-> TRUE,
          role |-> RoleGet(GetIntFromByte(At(data, 2), 0, 3)),
          complex_desc_supported |-> IsBitEnabled(At(data, 2), 3),
          user_desc_supported |-> IsBitEnabled(At(data, 2), 4),
          freq_band |-> SubSeq(ToBits(At(data, 3)), 4, 8),
          mac_capabilities |-> ToBits(At(data, 4)),
          manufacturer_code |-> BytesToInt(At(data, 6), At(data, 5)),
          max_buffer_size |-> At(data, 7),
          max_in_transfer_size |-> BytesToInt(At(data, 9), At(data, 8)),
          max_out_transfer_size |-> BytesToInt(At(data, 13), At(data, 12)),
          desc_capabilities |-> ToBits(At(data, 14))]

\* __parse_route applied to the five bytes of one entry
ParseRouteStep ==
    /\ dPc = "in"
    /\ dOut' = ParseRoute(dIn)
    /\ dPc' = "out"
    /\ UNCHANGED <<dIn, dX16, allocVars, exVars>>

\* NodeDescriptorReader._parse_data applied to a response body
DecodeNodeDescriptorStep ==
    /\ dPc = "in"
    /\ dOut' = DecodeNodeDescriptor(dIn, dX16)
    /\ dPc' = "out"
    /\ UNCHANGED <<dIn, dX16, allocVars, exVars>>

\* the frame-delivery thread hands one frame to _zdo_packet_callback
ZdoPacketCallbackStep ==
    /\ dPc = "in"
    /\ ZdoPacketCallback(dIn)
    /\ dPc' = "out"
    /\ UNCHANGED <<dIn, dX16, dOut, allocVars>>

(***************************************************************************)
(* The specifications.                                                     *)
(***************************************************************************)
\* AO values: 1 has the explicit bit (bit 0) set, 2 has not
AoValues == {1, 2}

\* a constructed instance (lines 84-96, 426, 735-739) that has not started
ExInit ==
    /\ kind \in Classes
    /\ cb \in (IF kind = "RT" THEN BOOLEAN ELSE {FALSE})
    /\ configure_ao \in BOOLEAN
    /\ devTotal \in (IF kind = "RT" THEN 0..MaxTotal ELSE {0})
    /\ ao \in (IF configure_ao THEN AoValues ELSE {2})
    /\ registered = FALSE
    /\ sent = <<>>
    /\ pendAck = 0
    /\ pendResp = <<>>
    /\ saved_ao = -1
    /\ running = FALSE
    /\ error = "none"
    /\ received_status = FALSE
    /\ received_answer = FALSE
    /\ data_parsed = FALSE
    /\ lock = FALSE
    /\ zdo_thread = FALSE
    /\ routes_set = FALSE
    /\ routes = <<>>
    /\ total_routes = 0
    /\ index = 0
    /\ node_descriptor = "none"
    /\ callerPc = "init"
    /\ ctlPc = "none"
    /\ fcbPc = "idle"
    /\ stopPc = "idle"
    /\ ret = "pending"
    /\ nDereg = 0
    /\ nRestore = 0
    /\ nNotify = 0
    /\ nFinish = 0
    /\ waitEnd = "none"
    /\ nWait = 0
    /\ hao = [initial |-> ao, writes |-> 0, failed |-> FALSE]
    /\ chk = NoChk
    /\ notified = NoNotified
    /\ delivered = <<>>
    /\ hist = NoHist
    /\ hstop = NoStop

\* the generator after the construction of the one instance of the exchange
AllocOne ==
    /\ ownTid = [c \in Classes |-> IF c = kind THEN GLOBAL_TID_INIT + 1 ELSE 0]
    /\ aPc = [t \in Threads |-> "idle"]
    /\ aCls = [t \in Threads |-> kind]
    /\ aTid = [t \in Threads |-> IF t = MainThread THEN GLOBAL_TID_INIT ELSE 0]
    /\ last = [cls |-> kind, tid |-> GLOBAL_TID_INIT]
    /\ prev = NoInst
    /\ nAlloc = 1
    /\ lastOf = [c \in Classes |-> IF c = kind THEN GLOBAL_TID_INIT ELSE 0]

\* no payload is being decoded on its own
DecIdle ==
    /\ dPc = "idle"
    /\ dIn = <<>>
    /\ dX16 = <<0, 0>>
    /\ dOut = NoDecoded

Init == ExInit /\ AllocOne /\ DecIdle

Next ==
    \/ (CallEntry /\ UNCHANGED <<allocVars, decVars>>)
    \/ (CallReturn /\ UNCHANGED <<allocVars, decVars>>)
    \/ (SendZdoBegin /\ UNCHANGED <<allocVars, decVars>>)
    \/ (SendZdoClear /\ UNCHANGED <<allocVars, decVars>>)
    \/ (SendZdoRegister /\ UNCHANGED <<allocVars, decVars>>)
    \/ (InitVariables /\ UNCHANGED <<allocVars, decVars>>)
    \/ (\E o \in {"ok", "getfail", "setfail"} : PrepareDevice(o) /\ UNCHANGED <<allocVars, decVars>>)
    \/ (\E ok \in BOOLEAN : SendPacket(ok) /\ UNCHANGED <<allocVars, decVars>>)
    \/ (WaitSignalled /\ UNCHANGED <<allocVars, decVars>>)
    \/ (WaitTimedOut /\ UNCHANGED <<allocVars, decVars>>)
    \/ (CheckOutcome /\ UNCHANGED <<allocVars, decVars>>)
    \/ (Deregister /\ UNCHANGED <<allocVars, decVars>>)
    \/ (RestoreDevice /\ UNCHANGED <<allocVars, decVars>>)
    \/ (RestoreReply /\ UNCHANGED <<allocVars, decVars>>)
    \/ (\E c \in {"write_lost", "reply_unread"} :
           RestoreFail(c) /\ UNCHANGED <<allocVars, decVars>>)
    \/ (NotifyProcessFinished /\ UNCHANGED <<allocVars, decVars>>)
    \/ (SendZdoEnd /\ UNCHANGED <<allocVars, decVars>>)
    \/ (\E ok \in BOOLEAN : DeliverAck(ok) /\ UNCHANGED <<allocVars, decVars>>)
    \/ (\E c \in 0..MaxTotal, ok \in BOOLEAN :
           \E f \in RespFrames(c) : DeliverAnswer(f, ok) /\ UNCHANGED <<allocVars, decVars>>)
    \/ (CallbackJoined /\ UNCHANGED <<allocVars, decVars>>)
    \/ (StopCall /\ UNCHANGED <<allocVars, decVars>>)
    \/ (StopJoined /\ UNCHANGED <<allocVars, decVars>>)

Spec == Init /\ [][Next]_vars

\* construction of instances of both classes by one thread; no exchange runs
InitAlloc ==
    /\ AllocInit
    /\ ExInit
    /\ kind = "ND" /\ configure_ao = FALSE
    /\ DecIdle

NextAlloc ==
    \/ (\E c \in Classes : AllocRead(MainThread, c) /\ UNCHANGED <<exVars, decVars>>)
    \/ (AllocIncr(MainThread) /\ UNCHANGED <<exVars, decVars>>)
    \/ (AllocWrap(MainThread) /\ UNCHANGED <<exVars, decVars>>)

SpecAlloc == InitAlloc /\ [][NextAlloc]_vars

\* construction of instances by several threads at once: each runs lines
\* 98-101 with no lock, so the three statements of the threads interleave
NextAllocConc ==
    \/ (\E t \in Threads, c \in Classes :
           nAlloc < MaxConc /\ AllocRead(t, c) /\ UNCHANGED <<exVars, decVars>>)
    \/ (\E t \in Threads : AllocIncr(t) /\ UNCHANGED <<exVars, decVars>>)
    \/ (\E t \in Threads : AllocWrap(t) /\ UNCHANGED <<exVars, decVars>>)

SpecAllocConc == InitAlloc /\ [][NextAllocConc]_vars

\* the address bytes tried in route entries
ByteSamples == {0, 1, 255}

\* one route entry of five bytes: every flags byte, sampled address bytes
InitRoute ==
    /\ AllocInit
    /\ ExInit
    /\ kind = "RT" /\ cb = FALSE /\ configure_ao = FALSE /\ devTotal = 0
    /\ dPc = "in"
    /\ dIn \in { <<dl, dh, fl, nl, nh>> : dl \in ByteSamples, dh \in ByteSamples,
                                         fl \in Bytes, nl \in ByteSamples, nh \in ByteSamples }
    /\ dX16 = <<0, 0>>
    /\ dOut = NoDecoded

NextRoute == ParseRouteStep

SpecRoute == InitRoute /\ [][NextRoute]_vars

\* two response bodies of 15 bytes, for the XBee with 16-bit address 0x1234
\* the frames the local device can hand to the callback
Frames ==
    LET src == {"unknown", "same", "other"}
    IN  { [frame_type |-> "EXPLICIT_RX_INDICATOR", x64 |-> a, x16 |-> b, profile_ok |-> p,
           source_endpoint_ok |-> se, dest_endpoint_ok |-> de, cluster_ok |-> c,
           tid_ok |-> t, ok |-> TRUE, body |-> f] :
             a \in src, b \in src, p \in BOOLEAN, se \in BOOLEAN, de \in BOOLEAN,
             c \in BOOLEAN, t \in BOOLEAN, f \in RespFrames(0) }
        \cup
        { [frame_type |-> ty, x64 |-> "same", x16 |-> "same", profile_ok |-> TRUE,
           source_endpoint_ok |-> TRUE, dest_endpoint_ok |-> TRUE, cluster_ok |-> TRUE,
           tid_ok |-> t, ok |-> o, body |-> <<>>] :
             ty \in {"TRANSMIT_STATUS", "OTHER"}, t \in BOOLEAN, o \in BOOLEAN }

\* an instance whose first request is out, or which is not running, and the
\* one frame in flight, about to be handed to its callback
InitCallback ==
    /\ kind \in Classes
    /\ AllocOne
    /\ cb = FALSE
    /\ configure_ao = FALSE
    /\ devTotal \in (IF kind = "RT" THEN 1..MaxTotal ELSE {0})
    /\ ao = 2
    /\ registered = TRUE
    /\ sent = <<0>>
    /\ pendAck = 0
    /\ pendResp = <<>>
    /\ saved_ao = -1
    /\ running \in BOOLEAN
    /\ error = "none"
    /\ received_status \in BOOLEAN
    /\ received_answer = FALSE
    /\ data_parsed = FALSE
    /\ lock = FALSE
    /\ zdo_thread = FALSE
    /\ routes_set = FALSE
    /\ routes = <<>>
    /\ total_routes = 0
    /\ index = 0
    /\ node_descriptor = "none"
    /\ callerPc = "blocked"
    /\ ctlPc = "wait"
    /\ fcbPc = "idle"
    /\ stopPc = "idle"
    /\ ret = "pending"
    /\ nDereg = 0
    /\ nRestore = 0
    /\ nNotify = 0
    /\ nFinish = 0
    /\ waitEnd = "none"
    /\ nWait = 0
    /\ hao = [initial |-> ao, writes |-> 0, failed |-> FALSE]
    /\ chk = NoChk
    /\ notified = NoNotified
    /\ delivered = <<>>
    /\ hist = NoHist
    /\ hstop = NoStop
    /\ dPc = "in"
    /\ dIn \in Frames
    /\ dX16 = <<0, 0>>
    /\ dOut = NoDecoded

NextCallback == ZdoPacketCallbackStep

SpecCallback == InitCallback /\ [][NextCallback]_vars

DescriptorBases ==
    { <<52, 18, 25, 3, 128, 2, 0, 80, 0, 1, 0, 0, 0, 2, 1>>,
      <<52, 18, 226, 20, 77, 205, 171, 9, 120, 86, 17, 34, 188, 154, 2>> }

\* a Node Descriptor response body: a base with one byte given every value
InitDescriptor ==
    /\ AllocInit
    /\ ExInit
    /\ kind = "ND" /\ configure_ao = FALSE
    /\ dPc = "in"
    /\ dIn \in { [b EXCEPT ![i] = v] : b \in DescriptorBases, i \in 1..15, v \in Bytes }
    /\ dX16 = <<18, 52>>
    /\ dOut = NoDecoded

NextDescriptor == DecodeNodeDescriptorStep

SpecDescriptor == InitDescriptor /\ [][NextDescriptor]_vars


(***************************************************************************)
(* The claims.                                                             *)
(***************************************************************************)

\* C1: two command instances constructed one after the other (no allocation
\* between them, so fewer than 254) have different transaction IDs,
\* whichever classes they are.
C1_DistinctTransactionIds ==
    (prev # NoInst /\ last # NoInst) => prev.tid # last.tid

\* C11: two instances of one class whose constructions by concurrent threads
\* complete one after the other (so not a wraparound apart) have different
\* transaction IDs.
C11_ConcurrentDistinct ==
    (prev # NoInst /\ last # NoInst /\ prev.cls = last.cls) => prev.tid # last.tid

C14_RechunkSame ==
    LET table == [i \in 1..devTotal |-> i - 1]
    IN (kind = "RT" /\ devTotal >= 1)
         => /\ (hist.pages = [i \in 1..devTotal |-> 1]) => routes = table
            /\ (hist.pages = <<devTotal>>) => routes = table

\* a table of two entries read from a single answer
C14_Witness ==
    /\ kind = "RT" /\ devTotal = 2 /\ hist.pages = <<2>> /\ routes = <<0, 1>>
    /\ Len(sent) = 1 /\ ctlPc = "done"

\* C15: in a Route Table exchange started with a route_callback, between
\* any two steps the routes handed to the callback so far are the
\* accumulated route list (same entries, same order, each once), and the
\* list given to the completion notification is that sequence.
C15_DeliveredIsAccumulated ==
    (kind = "RT" /\ cb)
      => /\ delivered = routes
         /\ notified.done => notified.routes = delivered

\* two routes were handed to the callback before the notification was made
C15_Witness ==
    /\ kind = "RT" /\ cb /\ delivered = <<0, 1>> /\ notified.done
    /\ notified.routes = <<0, 1>> /\ hist.pages = <<2>>

\* C16 as stated: a 5-byte entry [dstLo, dstHi, flags, nextLo, nextHi]
\* decodes to destination dstHi*256+dstLo, next hop nextHi*256+nextLo, the
\* status named by flags bits 0-2 (the five known ones for 0..4, UNKNOWN for
\* 5..7), low-memory = bit 3, many-to-one = bit 4, route-record-required =
\* bit 5.
C16_RouteDecode ==
    (dPc = "out" /\ kind = "RT")
      => LET code == dIn[3] % 8
         IN /\ dOut.destination[1] * 256 + dOut.destination[2] = dIn[2] * 256 + dIn[1]
            /\ dOut.next_hop[1] * 256 + dOut.next_hop[2] = dIn[5] * 256 + dIn[4]
            /\ dOut.status = CASE code = 0 -> "ACTIVE"
                               [] code = 1 -> "DISCOVERY_UNDERWAY"
                               [] code = 2 -> "DISCOVERY_FAILED"
                               [] code = 3 -> "INACTIVE"
                               [] code = 4 -> "VALIDATION_UNDERWAY"
                               [] OTHER -> "UNKNOWN"
            /\ dOut.is_low_memory = ((dIn[3] \div 8) % 2 = 1)
            /\ dOut.is_many_to_one = ((dIn[3] \div 16) % 2 = 1)
            /\ dOut.is_route_record_required = ((dIn[3] \div 32) % 2 = 1)

\* C16 amended: the same, except that the codes 5..7 decode to no status
\* (None) and not to UNKNOWN.
C16_RouteDecodeNone ==
    (dPc = "out" /\ kind = "RT")
      => LET code == dIn[3] % 8
         IN /\ dOut.destination[1] * 256 + dOut.destination[2] = dIn[2] * 256 + dIn[1]
            /\ dOut.next_hop[1] * 256 + dOut.next_hop[2] = dIn[5] * 256 + dIn[4]
            /\ dOut.status = CASE code = 0 -> "ACTIVE"
                               [] code = 1 -> "DISCOVERY_UNDERWAY"
                               [] code = 2 -> "DISCOVERY_FAILED"
                               [] code = 3 -> "INACTIVE"
                               [] code = 4 -> "VALIDATION_UNDERWAY"
                               [] OTHER -> "None"
            /\ dOut.is_low_memory = ((dIn[3] \div 8) % 2 = 1)
            /\ dOut.is_many_to_one = ((dIn[3] \div 16) % 2 = 1)
            /\ dOut.is_route_record_required = ((dIn[3] \div 32) % 2 = 1)

\* the entry [0x01, 0xFF, 0b00101110, 0xFF, 0x00] has been decoded: status
\* code 6, low-memory and route-record-required set, many-to-one clear
C16_Witness ==
    /\ dPc = "out" /\ kind = "RT" /\ dIn = <<1, 255, 46, 255, 0>>
    /\ dOut.status = "None" /\ dOut.is_low_memory /\ ~dOut.is_many_to_one
    /\ dOut.is_route_record_required
    /\ dOut.destination = <<255, 1>> /\ dOut.next_hop = <<0, 255>>

\* C17: a 15-byte Node Descriptor response body whose bytes 0-1 are the
\* target's 16-bit address decodes to role = byte 2 bits 0-2, complex flag =
\* byte 2 bit 3, user flag = byte 2 bit 4, MAC capabilities = the 8 bits of
\* byte 4, manufacturer code = byte 6*256 + byte 5, max buffer size = byte 7,
\* max incoming transfer size = byte 9*256 + byte 8, max outgoing transfer
\* size = byte 13*256 + byte 12, whatever bytes 10-11 are (the remaining
\* fields come from bytes 3 and 14), and the round is reported complete.
C17_DescriptorDecode ==
    (dPc = "out" /\ kind = "ND" /\ Len(dIn) = 15
        /\ dIn[2] = dX16[1] /\ dIn[1] = dX16[2])
      => /\ dOut.ok
         /\ dOut.role = dIn[3] % 8
         /\ dOut.complex_desc_supported = ((dIn[3] \div 8) % 2 = 1)
         /\ dOut.user_desc_supported = ((dIn[3] \div 16) % 2 = 1)
         /\ dOut.mac_capabilities
              = << dIn[5] % 2, (dIn[5] \div 2) % 2, (dIn[5] \div 4) % 2,
                   (dIn[5] \div 8) % 2, (dIn[5] \div 16) % 2, (dIn[5] \div 32) % 2,
                   (dIn[5] \div 64) % 2, (dIn[5] \div 128) % 2 >>
         /\ dOut.manufacturer_code = dIn[7] * 256 + dIn[6]
         /\ dOut.max_buffer_size = dIn[8]
         /\ dOut.max_in_transfer_size = dIn[10] * 256 + dIn[9]
         /\ dOut.max_out_transfer_size = dIn[14] * 256 + dIn[13]
         /\ dOut.freq_band
              = << (dIn[4] \div 8) % 2, (dIn[4] \div 16) % 2, (dIn[4] \div 32) % 2,
                   (dIn[4] \div 64) % 2, (dIn[4] \div 128) % 2 >>
         /\ dOut.desc_capabilities
              = << dIn[15] % 2, (dIn[15] \div 2) % 2, (dIn[15] \div 4) % 2,
                   (dIn[15] \div 8) % 2, (dIn[15] \div 16) % 2, (dIn[15] \div 32) % 2,
                   (dIn[15] \div 64) % 2, (dIn[15] \div 128) % 2 >>

\* the response body [0x34,0x12, 0b00011001, 3, 0x80, 2,0, 0x50, 0,1, 0,0,
\* 0,2, 1] has been decoded
C17_Witness ==
    /\ dPc = "out" /\ kind = "ND"
    /\ dIn = <<52, 18, 25, 3, 128, 2, 0, 80, 0, 1, 0, 0, 0, 2, 1>>
    /\ dOut.ok /\ dOut.role = 1 /\ dOut.complex_desc_supported
    /\ dOut.manufacturer_code = 2 /\ dOut.max_buffer_size = 80
    /\ dOut.max_in_transfer_size = 256 /\ dOut.max_out_transfer_size = 512
    /\ dOut.desc_capabilities[1] = 1

\* C18: _perform_finish_actions is invoked at most once per exchange, before
\* the completion notification, and only when no error is recorded at that
\* moment (in particular never after a status error or a link error).
C18_SuccessHookOnlyOnSuccess ==
    /\ nFinish <= 1
    /\ (nFinish = 1 /\ ctlPc = "dereg") => nNotify = 0
    /\ nFinish = 1 => chk.err = "none"

\* C19: in an asynchronously started exchange the frame-delivery thread is
\* never waiting (inside the callback) for the controlling unit to end while
\* that unit waits for the reply to the output-mode restore, which only the
\* frame-delivery thread can bring.
C19_CallbackNeverBlocks ==
    ~Sync => ~(fcbPc = "join" /\ ctlPc = "restore_wait")

\* C20: _running is already False when the transport callback is
\* deregistered, and once the controlling unit has left the timed wait, passed
\* the outcome checks and entered its cleanup, the frame callback processes
\* nothing: no flag, error history, result or cursor changes and no request
\* is sent.
C20_NotRunningBeforeDeregister ==
    [][ /\ nDereg' > nDereg => ~running
        /\ ctlPc \in {"dereg", "restore", "restore_wait", "notify", "unrun", "done"}
             => /\ hist' = hist
                /\ received_status' = received_status
                /\ received_answer' = received_answer
                /\ data_parsed' = data_parsed
                /\ routes' = routes /\ index' = index /\ total_routes' = total_routes
                /\ node_descriptor' = node_descriptor
                /\ sent' = sent ]_vars

\* C21 (as stated): the exchange performs one timed wait per request/response
\* round, so a finished exchange has waited as many times as it sent requests.
C21_OneWaitPerRound ==
    ctlPc = "done" => nWait = Len(sent)

\* C21 (amended): the exchange waits exactly once, after the first request is
\* sent and whatever the number of rounds: no wait before the first request or
\* when it could not be sent, one wait as soon as the outcome is examined, and
\* never a second one for a later round.
C21_OneWaitPerExchange ==
    /\ nWait <= 1
    /\ (nWait = 1) <=> (waitEnd # "none")
    /\ ctlPc \in {"none", "start", "clear", "reg", "init", "prepare", "send", "wait"} => nWait = 0
    /\ ctlPc = "check" => nWait = 1
    /\ (ctlPc = "done" /\ sent # <<>>) => nWait = 1

\* A two-round exchange whose first round was answered and whose only wait
\* ended by the timeout.
C21_Witness ==
    /\ ctlPc = "done"
    /\ Len(sent) = 2
    /\ Len(hist.pages) >= 1
    /\ waitEnd = "timeout"
    /\ nWait = 1

\* C22: a Route Table answer that carries zero entries and whose follow-up
\* request goes out makes the callback send exactly one request with the
\* cursor unchanged, record no error, leave the accumulated list alone, and
\* not finish the exchange: the wait signal is not raised by that answer and
\* the payload is not taken as fully parsed.
C22_ZeroEntriesRetry ==
    [][ (/\ Len(hist'.pages) = Len(hist.pages) + 1
         /\ hist'.pages[Len(hist'.pages)] = 0
         /\ sent' # sent)
        => /\ sent' = Append(sent, index)
           /\ index' = index
           /\ error' = error
           /\ routes' = routes
           /\ lock' = lock
           /\ ~data_parsed' ]_vars

\* C23: a transport failure ends the exchange at once with the failure as its
\* error and the full cleanup: after a failed preparation no request is sent
\* and nothing is waited for, after a failed first send nothing is waited for,
\* after a failed follow-up send from the callback the wait signal is raised
\* so the pending wait does not run to the timeout, and the finished exchange
\* has deregistered, restored and notified once each.
C23_TransportFailureEndsAtOnce ==
    /\ error = "prepare" => (sent = <<>> /\ nWait = 0)
    /\ (error = "send" /\ sent = <<>>) => nWait = 0
    /\ (error = "send" /\ sent # <<>> /\ ctlPc = "wait") => lock
    /\ ctlPc = "done" => (nDereg = 1 /\ nRestore = 1 /\ nNotify = 1)

\* C24: when the wait has ended, with no transmit status observed the error
\* becomes "command not sent" unless one was already recorded, even if an
\* answer was received; otherwise with no answer observed it becomes "answer
\* not received" unless one was already recorded; the success hook is called
\* exactly when both were observed, and then the error is left as it was.
C24_OutcomeAfterWait ==
    /\ ~chk.done => nFinish = 0
    /\ chk.done =>
         /\ ~chk.rs => chk.err = (IF chk.pre = "none" THEN "not_sent" ELSE chk.pre)
         /\ (chk.rs /\ ~chk.ra) => chk.err = (IF chk.pre = "none" THEN "no_answer" ELSE chk.pre)
         /\ (chk.rs /\ chk.ra) => chk.err = chk.pre
         /\ nFinish = (IF chk.rs /\ chk.ra THEN 1 ELSE 0)

\* the answer was received and parsed but no transmit status came before the
\* timeout: "command not sent", and the success hook was not called
C24_Witness ==
    /\ chk.done /\ ~chk.rs /\ chk.ra /\ data_parsed
    /\ chk.pre = "none" /\ chk.err = "not_sent"
    /\ waitEnd = "timeout" /\ nFinish = 0

\* C25: every matching transmit status processed by the callback marks the
\* status as received; one that reports a failure records the link error and
\* raises the wait signal at once; one that reports success or self-addressed
\* records no error and raises the signal exactly when the payload was
\* already fully parsed.
C25_TransmitStatusEffect ==
    hist.ackSnap.taken
      => /\ hist.ackSnap.marked
         /\ hist.ackSnap.failRecorded /\ hist.ackSnap.failStopped
         /\ hist.ackSnap.okErrorKept /\ hist.ackSnap.okStopIffParsed

\* a successful transmit status for the first request and a failed one for a
\* follow-up request have both been processed, the latter raising the signal
C25_Witness ==
    /\ hist.ackSnap.taken /\ hist.ackOk /\ hist.ackFail
    /\ received_status /\ lock /\ error = "link"
    /\ Len(sent) = 2

\* C26: a frame handed to the callback while the instance is not running, a
\* response frame whose profile, endpoints, cluster ID or transaction ID do not
\* match, a response whose source is rejected (both addresses of the target
\* known and both different from the frame's), and a transmit status whose
\* frame ID is not the transaction ID change no field (flags, error, results,
\* cursor), send nothing and do not raise the wait signal.
C26_IgnoredFramesChangeNothing ==
    [][ (/\ dPc = "in" /\ dPc' = "out"
         /\ \/ ~running
            \/ /\ dIn.frame_type = "EXPLICIT_RX_INDICATOR"
               /\ \/ ~dIn.profile_ok \/ ~dIn.source_endpoint_ok \/ ~dIn.dest_endpoint_ok
                  \/ ~dIn.cluster_ok \/ ~dIn.tid_ok
                  \/ (dIn.x64 = "other" /\ dIn.x16 = "other")
            \/ (dIn.frame_type = "TRANSMIT_STATUS" /\ ~dIn.tid_ok))
        => UNCHANGED <<received_status, received_answer, data_parsed, error, routes,
                       total_routes, index, node_descriptor, delivered, sent, lock>> ]_vars

\* a running instance has been handed a failed transmit status of another
\* transaction and has recorded nothing
C26_Witness ==
    /\ dPc = "out" /\ running
    /\ dIn.frame_type = "TRANSMIT_STATUS" /\ ~dIn.tid_ok /\ ~dIn.ok
    /\ ~received_status /\ error = "none" /\ ~lock

\* C27: as long as no access to the output-mode register failed in transport,
\* an exchange with configure_ao false, or which found the register already
\* explicit, never writes it; any other exchange has the register explicit
\* from the moment the request is about to be sent until the callback is
\* deregistered, and once its cleanup is over the register has the value it
\* had before the exchange.
C27_OutputModeRegister ==
    ~hao.failed
      => /\ (~configure_ao \/ ExplicitEnabled(hao.initial))
              => (hao.writes = 0 /\ ao = hao.initial)
         /\ (configure_ao /\ ~ExplicitEnabled(hao.initial))
              => /\ ctlPc \in {"send", "wait", "check", "dereg"} => ExplicitEnabled(ao)
                 /\ ctlPc \in {"notify", "unrun", "done"} => ao = hao.initial

\* a finished exchange that set the register to explicit and wrote it back
C27_Witness ==
    /\ ctlPc = "done" /\ configure_ao /\ ~hao.failed
    /\ ~ExplicitEnabled(hao.initial) /\ hao.writes = 2 /\ ao = hao.initial
    /\ sent # <<>> /\ error = "none"

\* C28: a failure to restore the output-mode register becomes the error of
\* the exchange only when none was recorded before; an error recorded earlier
\* (remote status, link status, timeout message, preparation failure) is
\* kept, and the completion notification delivers the error so kept.
C28_RestoreKeepsEarlierError ==
    [][ /\ (ctlPc = "restore_wait" /\ error # "none") => error' = error
        /\ (ctlPc = "restore_wait" /\ error = "none" /\ error' # error) => error' = "restore"
        /\ (ctlPc = "notify" /\ ctlPc' # "notify") => notified'.err = error ]_vars

\* C29: in a decoded NodeDescriptor the frequency band is the five flags of
\* bits 0 to 4 of body byte 3, lowest bit first, and the descriptor
\* capabilities are the two flags of bits 0 and 1 of body byte 14.
C29_BandAndCapabilityBits ==
    (dPc = "out" /\ kind = "ND" /\ Len(dIn) = 15 /\ dOut.ok)
      => /\ dOut.freq_band
              = << dIn[4] % 2, (dIn[4] \div 2) % 2, (dIn[4] \div 4) % 2,
                   (dIn[4] \div 8) % 2, (dIn[4] \div 16) % 2 >>
         /\ dOut.desc_capabilities = << dIn[15] % 2, (dIn[15] \div 2) % 2 >>

C2_CleanupOrder ==
    /\ nDereg <= 1 /\ nRestore <= 1 /\ nNotify <= 1
    /\ (nRestore = 1 => nDereg = 1)
    /\ (nNotify = 1 => nRestore = 1 /\ ctlPc # "restore_wait")
    /\ (notified.done => ~notified.reg)
    /\ (ctlPc = "done" => nDereg = 1 /\ nRestore = 1 /\ nNotify = 1 /\ ~registered)

\* an exchange ended by stop() has been cleaned up and notified
C2_Witness ==
    ctlPc = "done" /\ nNotify = 1 /\ hstop.set /\ waitEnd = "signal" /\ error # "none"

C5_PartialTableHasError ==
    (kind = "RT" /\ ctlPc = "done" /\ waitEnd = "timeout"
        /\ Len(routes) >= 1 /\ index < total_routes)
      => error # "none"

\* C6: when a Node Descriptor exchange has completed, an error is recorded
\* exactly when the descriptor is absent.
C6_DescriptorIffNoError ==
    (kind = "ND" /\ ctlPc = "done")
      => ((error # "none") <=> (node_descriptor = "none"))

\* C7: for an asynchronously started exchange, a stop() issued after the
\* start call returned and before the timed wait ended makes the wait end
\* without the timeout elapsing.
C7_StopNeverLost ==
    (~Sync /\ hstop.set /\ hstop.waiting) => waitEnd # "timeout"

\* C8 as stated: stop() called from outside the controlling unit while the
\* exchange is running (started synchronously or asynchronously) returns
\* only after the unit has deregistered, restored and notified.
C8_StopWaitsForUnit ==
    (stopPc = "returned" /\ hstop.running)
      => (nDereg = 1 /\ nRestore = 1 /\ nNotify = 1)

\* C8 amended: that holds when the exchange was started asynchronously
\* (stop() joins the thread; a synchronous start has no thread to join).
C8_AsyncStopWaitsForUnit ==
    (~Sync /\ stopPc = "returned" /\ hstop.running)
      => (nDereg = 1 /\ nRestore = 1 /\ nNotify = 1 /\ ctlPc = "done")

\* stop() has returned from a call made while the asynchronous exchange ran
C8_Witness ==
    ~Sync /\ stopPc = "returned" /\ hstop.running /\ InRound = FALSE /\ ctlPc = "done"

C10_AsyncReturnsNone ==
    (kind = "RT" /\ cb /\ callerPc = "returned") => ret = "None"

====
